---- MODULE Spec2Model ----
(***************************************************************************)
(* Supervision engine of the dev-server monitor: DevServer::run            *)
(* (server.rs), ProcessMonitor (monitor.rs) and ProcessManager             *)
(* (process.rs).  One supervisor thread runs the restart loop and, inside  *)
(* it, the monitor's decision loop; two scanner threads per attempt read   *)
(* the child's stdout and stderr; the child process and its descendants    *)
(* are the environment.                                                    *)
(***************************************************************************)
EXTENDS Integers, Sequences, FiniteSets, TLC

\* ---------------------------------------------------------------- bounds
MaxAttempts == 2      \* loop iterations explored (the loop itself has no cap)
MaxWrites == 2        \* items the child writes to its two streams in one attempt
ShortTimeoutMs == 120 \* shutdown_timeout is 0 or this many ms

\* ------------------------------------------------------ program constants
RestartDelayMs == 2000        \* Config::default restart_delay
ErrorDelayMs == 5000          \* Config::default error_delay
ProcessCheckIntervalMs == 100 \* Config::default process_check_interval
KillPollMs == 50              \* kill_and_wait: thread::sleep between polls

Streams == {"stdout", "stderr"}

\* Text is a tuple of one-character strings.
ERROR_PATTERN == <<"[", "E", "r", "r", "o", "r">>
AltPattern == <<"E", "R", "R", "O", "R">>
Patterns == {ERROR_PATTERN, AltPattern}

LineReady == <<"o", "k">>
LineBoom == <<"[", "E", "r", "r", "o", "r", "]">>
Lines == {LineReady, LineBoom}

\* A stream carries lines; BadBytes is input on which BufRead::lines yields Err.
BadBytes == <<"BadBytes">>
Items == Lines \cup {BadBytes}

ExitCodes == {0, 1}
Timeouts == {0, ShortTimeoutMs}

\* Mutant of Contains: both texts folded to lower case before the search.
ContainsIgnoreCase(line, pat) ==
    LET Lower(ch) == CASE ch = "E" -> "e" [] ch = "R" -> "r" [] ch = "O" -> "o"
                       [] OTHER -> ch
        Fold(text) == [i \in 1..Len(text) |-> Lower(text[i])]
    IN \E i \in 0..(Len(line) - Len(pat)) :
         SubSeq(Fold(line), i + 1, i + Len(pat)) = Fold(pat)

\* str::contains: the pattern occurs as a contiguous, case-sensitive substring.
Contains(line, pat) ==
    \E i \in 0..(Len(line) - Len(pat)) : SubSeq(line, i + 1, i + Len(pat)) = pat

\* Config::default(); shutdown_timeout is a public field, explored over Timeouts.
DefaultConfig(timeout) ==
    [ restart_delay |-> RestartDelayMs,
      error_delay |-> ErrorDelayMs,
      process_check_interval |-> ProcessCheckIntervalMs,
      shutdown_timeout |-> timeout,
      error_pattern |-> ERROR_PATTERN ]

VARIABLES
    \* DevServer
    spc,            \* position of DevServer::run
    test_mode,
    config,         \* DevServer.config
    cli_config,     \* DevServer.cli_config: <<>> (None) or <<CliConfig>>
    monitor_config, \* ProcessMonitor.config: <<>> before ProcessMonitor::new, then <<Config>>
    restart_count,
    slept,          \* delays slept since the current attempt ended
    lastGap,        \* what preceded the latest loop iteration: [outcome, sleeps, detached]
    streak,         \* consecutive attempts that failed to start: [fails, sleeps since the first]
    pid_cell,       \* Arc<Mutex<Option<u32>>> read by the interrupt handler: <<>> or <<id>>
    call,           \* the Config constructor or builder applied last: [fn, arg]
    \* ProcessMonitor::monitor of the current attempt
    mpc,            \* position of monitor / wait_for_completion / kill_and_wait
    ret,            \* what start_server_attempt returned: none, OkTrue, OkFalse, Err
    should_restart,
    decidedBy,      \* what the decision loop acted on
    chan,           \* mpsc channel: messages sent and not yet received
    rxAlive,        \* the Receiver has not been dropped
    txAlive,        \* monitor's own Sender `tx` has not been dropped
    sc,             \* position of each scanner thread
    sent,           \* per scanner: the messages it has passed to tx.send
    \* the child process and its pipes
    child,          \* none, running, exited
    status,         \* exit code once exited
    signalled,      \* a kill signal was delivered
    pipe,           \* per stream: items written and not yet read
    wopen,          \* per stream: the child still holds the write end
    held,           \* descendants of the child still hold the write ends
    writes,         \* number of items the child has written
    \* kill_and_wait
    kwElapsed,      \* start.elapsed() in ms
    kw,             \* [calls, signals, polls, exitedAtCall, kill, how, result]
    \* history of the attempt
    matchRead,      \* a scanner read a line containing the pattern
    matchWritten,   \* the child wrote a line containing the pattern
    badWritten,     \* the child wrote bytes that fail to decode
    exitObserved,   \* some try_wait returned Some(status)
    pollFailed,     \* some try_wait returned Err
    unechoed,       \* per stream: lines written and not yet echoed
    echoInOrder     \* every echo so far was the oldest unechoed line of its stream

entryVars == <<pid_cell, call>>
cfgVars == <<cli_config, monitor_config>>
supVars == <<spc, test_mode, config, cfgVars, restart_count, slept, lastGap, streak,
             entryVars>>
monVars == <<mpc, ret, should_restart, decidedBy, chan, rxAlive, txAlive, sc, sent>>
childVars == <<child, status, signalled, pipe, wopen, held, writes>>
kwVars == <<kwElapsed, kw>>
echoVars == <<unechoed, echoInOrder>>
histVars == <<matchRead, matchWritten, badWritten, exitObserved, pollFailed, echoVars>>
vars == <<supVars, monVars, childVars, kwVars, histVars>>

NoKw == [calls |-> 0, signals |-> 0, polls |-> 0, exitedAtCall |-> FALSE,
         kill |-> "none", how |-> "none", result |-> "none"]

NoStreak == [fails |-> 0, sleeps |-> <<>>]

\* Config::new()
ConfigNew(timeout) == DefaultConfig(timeout)

\* Everything but the position of run and the Config it was handed.
InitRest ==
    /\ test_mode \in BOOLEAN
    /\ cli_config = <<>>
    /\ monitor_config = <<>>
    /\ call = [fn |-> "new", arg |-> <<>>]
    /\ pid_cell = <<>>
    /\ streak = NoStreak
    /\ sent = [s \in Streams |-> <<>>]
    /\ unechoed = [s \in Streams |-> <<>>]
    /\ echoInOrder = TRUE
    /\ restart_count = 0
    /\ slept = <<>>
    /\ lastGap = [outcome |-> "none", sleeps |-> <<>>, detached |-> 0]
    /\ mpc = "idle"
    /\ ret = "none"
    /\ should_restart = FALSE
    /\ decidedBy = "none"
    /\ chan = <<>>
    /\ rxAlive = FALSE
    /\ txAlive = FALSE
    /\ sc = [s \in Streams |-> "none"]
    /\ child = "none"
    /\ status = 0
    /\ signalled = FALSE
    /\ pipe = [s \in Streams |-> <<>>]
    /\ wopen = [s \in Streams |-> FALSE]
    /\ held = FALSE
    /\ writes = 0
    /\ kwElapsed = 0
    /\ kw = NoKw
    /\ matchRead = FALSE
    /\ matchWritten = FALSE
    /\ badWritten = FALSE
    /\ exitObserved = FALSE
    /\ pollFailed = FALSE

Init ==
    /\ spc = "load"
    /\ config \in {ConfigNew(t) : t \in Timeouts}
    /\ InitRest

\* ------------------------------------------------------------- DevServer

\* Mutant of NewMonitor: the monitor is built from Config::default() instead
\* of the Config run holds.
NewMonitorFromDefault(cfg) == <<DefaultConfig(cfg.shutdown_timeout)>>

\* let monitor = ProcessMonitor::new(self.config.clone())
NewMonitor(cfg) == <<cfg>>

\* The Config the monitor of this run works with (ProcessMonitor's self.config).
MonitorConfig == monitor_config[1]

\* run, before the loop: CliConfig::load_or_create()? unless in test mode,
\* then the monitor is created from the Config as it is by then.
LoadTest ==
    /\ spc = "load" /\ test_mode
    /\ monitor_config' = NewMonitor(config)
    /\ spc' = "start"
    /\ UNCHANGED <<test_mode, config, cli_config, restart_count, slept, lastGap, streak, entryVars,
                   monVars, childVars, kwVars, histVars>>

LoadCli ==
    /\ spc = "load" /\ ~test_mode
    /\ \E p \in Patterns :
         /\ cli_config' = <<[error_pattern |-> p]>>
         /\ config' = [config EXCEPT !.error_pattern = p]
    /\ monitor_config' = NewMonitor(config')
    /\ spc' = "start"
    /\ UNCHANGED <<test_mode, restart_count, slept, lastGap, streak, entryVars,
                   monVars, childVars, kwVars, histVars>>

LoadFail ==
    /\ spc = "load" /\ ~test_mode
    /\ spc' = "failed"
    /\ UNCHANGED <<test_mode, config, cfgVars, restart_count, slept, lastGap, streak, entryVars,
                   monVars, childVars, kwVars, histVars>>

Running(s) == sc[s] \in {"read", "send_match", "send_io"}
Finished(s) == sc[s] \in {"done_ok", "done_err"}

\* What every loop iteration does first: restart_count += 1; the state of the
\* previous attempt has gone out of scope.
BeginAttempt ==
    /\ spc = "start"
    /\ restart_count < MaxAttempts
    /\ restart_count' = restart_count + 1
    /\ lastGap' = [outcome |-> ret, sleeps |-> slept,
                    detached |-> Cardinality({s \in Streams : sc[s] = "detached"})]
    /\ slept' = <<>>
    /\ kwElapsed' = 0
    /\ kw' = NoKw
    /\ matchRead' = FALSE
    /\ matchWritten' = FALSE
    /\ badWritten' = FALSE
    /\ exitObserved' = FALSE
    /\ pollFailed' = FALSE
    /\ should_restart' = FALSE
    /\ decidedBy' = "none"
    /\ chan' = <<>>
    /\ status' = 0
    /\ signalled' = FALSE
    /\ pipe' = [s \in Streams |-> <<>>]
    /\ writes' = 0
    /\ sent' = [s \in Streams |-> <<>>]
    /\ unechoed' = [s \in Streams |-> <<>>]
    /\ echoInOrder' = TRUE
    /\ UNCHANGED <<test_mode, config, cfgVars, call>>

\* child.id() of the child spawned by the current loop iteration.
ChildId == restart_count

\* start_server_attempt calls ProcessManager::spawn(command), which takes no
\* PID handle: nothing is stored in the cell (spawn_with_pid_handle, which
\* stores Some(child.id()), has no caller).
\* start_server_attempt: ProcessManager::spawn fails with ProcessStart.
SpawnFail ==
    /\ BeginAttempt
    /\ ret' = "Err"
    /\ spc' = "sleep_error"
    /\ mpc' = "idle"
    /\ rxAlive' = FALSE
    /\ txAlive' = FALSE
    /\ sc' = [s \in Streams |-> "none"]
    /\ child' = "none"
    /\ wopen' = [s \in Streams |-> FALSE]
    /\ held' = FALSE
    /\ streak' = [streak EXCEPT !.fails = @ + 1]
    /\ UNCHANGED pid_cell

\* start_server_attempt: spawn succeeds; monitor takes both streams, creates
\* the channel (tx, rx, two clones of tx) and starts the two scanner threads.
SpawnOk ==
    /\ BeginAttempt
    /\ ret' = "none"
    /\ spc' = "monitor"
    /\ mpc' = "recv"
    /\ rxAlive' = TRUE
    /\ txAlive' = TRUE
    /\ sc' = [s \in Streams |-> "read"]
    /\ child' = "running"
    /\ wopen' = [s \in Streams |-> TRUE]
    /\ held' \in BOOLEAN
    /\ streak' = NoStreak
    /\ UNCHANGED pid_cell

\* ------------------------------------------------- the child (environment)

\* monitor has not returned yet.  What the child's pipes carry afterwards has
\* no reader left that the supervisor waits for, and is not followed.
Monitored == spc = "monitor"

\* The child writes one more item to a stream.
ChildWrite(s, item) ==
    /\ Monitored
    /\ child = "running" /\ wopen[s]
    /\ writes < MaxWrites
    /\ pipe' = [pipe EXCEPT ![s] = Append(@, item)]
    /\ writes' = writes + 1
    /\ matchWritten' = (matchWritten \/ (item \in Lines /\ Contains(item, MonitorConfig.error_pattern)))
    /\ badWritten' = (badWritten \/ item = BadBytes)
    /\ unechoed' = IF item \in Lines THEN [unechoed EXCEPT ![s] = Append(@, item)]
                    ELSE unechoed
    /\ UNCHANGED <<supVars, monVars, child, status, signalled, wopen, held,
                   kwVars, matchRead, exitObserved, pollFailed, echoInOrder>>

\* The child closes a stream while it keeps running.
ChildClose(s) ==
    /\ Monitored
    /\ child = "running" /\ wopen[s]
    /\ wopen' = [wopen EXCEPT ![s] = FALSE]
    /\ UNCHANGED <<supVars, monVars, child, status, signalled, pipe, held, writes,
                   kwVars, histVars>>

\* The child exits (on its own, or killed); its write ends close.
ChildExit(code) ==
    /\ child = "running"
    /\ child' = "exited"
    /\ status' = code
    /\ wopen' = [s \in Streams |-> FALSE]
    /\ UNCHANGED <<supVars, monVars, signalled, pipe, held, writes,
                   kwVars, histVars>>

\* The descendants that inherited the pipes exit.
DescendantsExit ==
    /\ Monitored
    /\ held
    /\ held' = FALSE
    /\ UNCHANGED <<supVars, monVars, child, status, signalled, pipe, wopen, writes,
                   kwVars, histVars>>

\* A read on the stream returns end of file.
Eof(s) == ~wopen[s] /\ ~held /\ pipe[s] = <<>>

\* ------------------------------------------------------- scanner threads

\* println!("{}", line) / eprintln!("{}", line): the line appears on the
\* terminal; it was due if it is the oldest line of the stream not yet echoed.
Echo(s, line) ==
    LET due == unechoed[s] # <<>> /\ Head(unechoed[s]) = line IN
      /\ unechoed' = IF due THEN [unechoed EXCEPT ![s] = Tail(@)] ELSE unechoed
      /\ echoInOrder' = (echoInOrder /\ due)

\* for line in reader.lines(): Ok(line) => echo, then the match check.
ScanLine(s) ==
    /\ sc[s] = "read"
    /\ pipe[s] # <<>> /\ Head(pipe[s]) \in Lines
    /\ pipe' = [pipe EXCEPT ![s] = Tail(@)]
    /\ Echo(s, Head(pipe[s]))
    /\ IF Contains(Head(pipe[s]), MonitorConfig.error_pattern)
         THEN /\ sc' = [sc EXCEPT ![s] = "send_match"]
              /\ matchRead' = TRUE
         ELSE UNCHANGED <<sc, matchRead>>
    /\ UNCHANGED <<supVars, mpc, ret, should_restart, decidedBy, chan, rxAlive, txAlive,
                   sent, child, status, signalled, wopen, held, writes, kwVars,
                   matchWritten, badWritten, exitObserved, pollFailed>>

\* for line in reader.lines(): Err(e).
ScanReadErr(s) ==
    /\ sc[s] = "read"
    /\ pipe[s] # <<>> /\ Head(pipe[s]) = BadBytes
    /\ pipe' = [pipe EXCEPT ![s] = Tail(@)]
    /\ sc' = [sc EXCEPT ![s] = "send_io"]
    /\ UNCHANGED <<supVars, mpc, ret, should_restart, decidedBy, chan, rxAlive, txAlive,
                   sent, child, status, signalled, wopen, held, writes, kwVars,
                   histVars>>

\* The lines iterator ends: the thread returns Ok(()).
ScanEof(s) ==
    /\ sc[s] = "read"
    /\ Eof(s)
    /\ sc' = [sc EXCEPT ![s] = "done_ok"]
    /\ UNCHANGED <<supVars, mpc, ret, should_restart, decidedBy, chan, rxAlive, txAlive,
                   sent, childVars, kwVars, histVars>>

\* Mutant of SendMatch: the `break` after a successful send missing.
SendMatchNoBreak(s) ==
    /\ sc[s] = "send_match"
    /\ IF rxAlive
         THEN /\ chan' = Append(chan, "ErrorDetected")
              /\ sc' = [sc EXCEPT ![s] = "read"]
         ELSE /\ chan' = chan
              /\ sc' = [sc EXCEPT ![s] = "done_err"]
    /\ sent' = [sent EXCEPT ![s] = Append(@, "ErrorDetected")]
    /\ UNCHANGED <<supVars, mpc, ret, should_restart, decidedBy, rxAlive, txAlive,
                   childVars, kwVars, histVars>>

\* tx.send(WatchMessage::ErrorDetected)?; break;  -- the send fails once the
\* Receiver is dropped, and `?` turns that into Err(ChannelError).
SendMatch(s) ==
    /\ sc[s] = "send_match"
    /\ IF rxAlive
         THEN /\ chan' = Append(chan, "ErrorDetected")
              /\ sc' = [sc EXCEPT ![s] = "done_ok"]
         ELSE /\ chan' = chan
              /\ sc' = [sc EXCEPT ![s] = "done_err"]
    /\ sent' = [sent EXCEPT ![s] = Append(@, "ErrorDetected")]
    /\ UNCHANGED <<supVars, mpc, ret, should_restart, decidedBy, rxAlive, txAlive,
                   childVars, kwVars, histVars>>

\* Mutant of SendIo: the `return` after the send missing.
SendIoKeepsReading(s) ==
    /\ sc[s] = "send_io"
    /\ chan' = IF rxAlive THEN Append(chan, "IoError") ELSE chan
    /\ sc' = [sc EXCEPT ![s] = "read"]
    /\ sent' = [sent EXCEPT ![s] = Append(@, "IoError")]
    /\ UNCHANGED <<supVars, mpc, ret, should_restart, decidedBy, rxAlive, txAlive,
                   childVars, kwVars, histVars>>

\* let _ = tx.send(WatchMessage::IoError(..)); return Err(IoError).
SendIo(s) ==
    /\ sc[s] = "send_io"
    /\ chan' = IF rxAlive THEN Append(chan, "IoError") ELSE chan
    /\ sc' = [sc EXCEPT ![s] = "done_err"]
    /\ sent' = [sent EXCEPT ![s] = Append(@, "IoError")]
    /\ UNCHANGED <<supVars, mpc, ret, should_restart, decidedBy, rxAlive, txAlive,
                   childVars, kwVars, histVars>>

\* A detached scanner thread ends on its own (end of file, a failed send).
DetachedEnds(s) ==
    /\ sc[s] = "detached"
    /\ sc' = [sc EXCEPT ![s] = "done_err"]
    /\ UNCHANGED <<supVars, mpc, ret, should_restart, decidedBy, chan, rxAlive, txAlive,
                   sent, childVars, kwVars, histVars>>

\* ------------------------------------------- ProcessMonitor, decision loop

\* Live Sender handles of the channel: monitor's `tx`, which stays in scope
\* until monitor returns, and the clone each running scanner thread owns.
Senders ==
    (IF txAlive THEN 1 ELSE 0) + Cardinality({s \in Streams : Running(s)})

\* rx.recv_timeout: a queued message first, Disconnected when the queue is
\* empty and no Sender is left, Timeout otherwise.
RecvTimeout(queue, senders) ==
    IF queue # <<>> THEN Head(queue)
    ELSE IF senders = 0 THEN "Disconnected"
    ELSE "Timeout"

\* Mutant of NeedsRestart: the negation dropped, Ok(status.success()).
NeedsRestartInverted(code) == code = 0

\* Ok(!status.success())
NeedsRestart(code) == code # 0

\* wait_for_completion returns Ok(b): the Receiver is dropped with it, and
\* monitor goes on to cleanup_threads.
Decide(b, by) ==
    /\ should_restart' = b
    /\ decidedBy' = by
    /\ rxAlive' = FALSE
    /\ chan' = <<>>
    /\ mpc' = "join_stdout"

\* Mutant of Recv: the message arms return Ok(true) without kill_and_wait.
RecvSkipsKill ==
    /\ mpc = "recv"
    /\ LET r == RecvTimeout(chan, Senders) IN
         CASE r = "Timeout" ->
                /\ mpc' = "poll"
                /\ UNCHANGED <<should_restart, decidedBy, chan, rxAlive>>
           [] r = "Disconnected" ->
                Decide(FALSE, "Disconnected")
           [] OTHER ->
                Decide(TRUE, r)
    /\ UNCHANGED <<supVars, ret, txAlive, sc, sent, childVars, kwVars, histVars>>

\* Mutant of Recv: the exit status is looked at before the channel, so an
\* exited child sends the loop to try_wait with a message still queued.
RecvPollsFirst ==
    /\ mpc = "recv"
    /\ LET r == RecvTimeout(chan, Senders) IN
         CASE r = "Timeout" \/ child = "exited" ->
                /\ mpc' = "poll"
                /\ UNCHANGED <<should_restart, decidedBy, chan, rxAlive>>
           [] r = "Disconnected" ->
                Decide(FALSE, "Disconnected")
           [] OTHER ->
                /\ decidedBy' = r
                /\ chan' = Tail(chan)
                /\ mpc' = "kill"
                /\ UNCHANGED <<should_restart, rxAlive>>
    /\ UNCHANGED <<supVars, ret, txAlive, sc, sent, childVars, kwVars, histVars>>

\* One iteration of the loop up to the match on rx.recv_timeout(..):
\*   Ok(ErrorDetected) | Ok(IoError(_))  go on to kill_and_wait;
\*   Err(Timeout)                        go on to process.try_wait();
\*   Err(Disconnected)                   return Ok(false).
Recv ==
    /\ mpc = "recv"
    /\ LET r == RecvTimeout(chan, Senders) IN
         CASE r = "Timeout" ->
                /\ mpc' = "poll"
                /\ UNCHANGED <<should_restart, decidedBy, chan, rxAlive>>
           [] r = "Disconnected" ->
                Decide(FALSE, "Disconnected")
           [] OTHER ->
                /\ decidedBy' = r
                /\ chan' = Tail(chan)
                /\ mpc' = "kill"
                /\ UNCHANGED <<should_restart, rxAlive>>
    /\ UNCHANGED <<supVars, ret, txAlive, sc, sent, childVars, kwVars, histVars>>

\* process.try_wait()? returns Err: monitor returns Err at once; rx, tx and
\* both JoinHandles are dropped without a join, so a scanner thread that has
\* not ended keeps running detached.
PollErr ==
    /\ mpc = "poll"
    /\ sc' = [s \in Streams |-> IF Running(s) THEN "detached" ELSE sc[s]]
    /\ pollFailed' = TRUE
    /\ decidedBy' = "PollErr"
    /\ ret' = "Err"
    /\ rxAlive' = FALSE
    /\ txAlive' = FALSE
    /\ chan' = <<>>
    /\ mpc' = "returned"
    /\ spc' = "sleep_error"
    /\ UNCHANGED <<test_mode, config, cfgVars, restart_count, slept, lastGap, streak, entryVars,
                   should_restart, sent, childVars, kwVars,
                   matchRead, matchWritten, badWritten, exitObserved, echoVars>>

\* try_wait returns Some(status).
PollExited ==
    /\ mpc = "poll"
    /\ child = "exited"
    /\ exitObserved' = TRUE
    /\ Decide(NeedsRestart(status), "Exit")
    /\ UNCHANGED <<supVars, ret, txAlive, sc, sent, childVars, kwVars,
                   matchRead, matchWritten, badWritten, pollFailed, echoVars>>

\* try_wait returns None => continue.
PollRunning ==
    /\ mpc = "poll"
    /\ child = "running"
    /\ mpc' = "recv"
    /\ UNCHANGED <<supVars, ret, should_restart, decidedBy, chan, rxAlive, txAlive, sc,
                   sent, childVars, kwVars, histVars>>

\* ------------------------------------------- ProcessManager::kill_and_wait

\* What self.child.kill() can return: InvalidInput stands for "the process
\* has already exited", Other for every other failure.
KillOutcomes(c) ==
    IF c = "exited" THEN {"Ok", "InvalidInput", "Other"} ELSE {"Ok", "Other"}

\* Mutant of KillIsFatal: the InvalidInput arm missing.
KillIsFatalStrict(kind) == kind # "Ok"

\* The match on e.kind(): which kill failures make kill_and_wait return Err.
KillIsFatal(kind) == kind \notin {"Ok", "InvalidInput"}

\* Mutant of TimedOut: the elapsed time compared with twice the timeout.
TimedOutDoubled(elapsed, timeout) == elapsed >= 2 * timeout

\* start.elapsed() >= timeout
TimedOut(elapsed, timeout) == elapsed >= timeout

\* Mutant of KwReturn: the message arms propagate kill_and_wait's failure.
KwReturnPropagates(how, result) ==
    /\ kw' = [kw EXCEPT !.polls = @ + 1, !.how = how, !.result = result]
    /\ should_restart' = (result = "Ok")
    /\ rxAlive' = FALSE
    /\ chan' = <<>>
    /\ mpc' = "join_stdout"

\* kill_and_wait returned (Ok or Err): both message arms of
\* wait_for_completion then return Ok(true).
KwReturn(how, result) ==
    /\ kw' = [kw EXCEPT !.polls = @ + 1, !.how = how, !.result = result]
    /\ should_restart' = TRUE
    /\ rxAlive' = FALSE
    /\ chan' = <<>>
    /\ mpc' = "join_stdout"

\* self.child.kill(), and on a fatal failure return Err(ProcessManagement)
\* without polling.
Kill ==
    /\ mpc = "kill"
    /\ \E k \in KillOutcomes(child) :
         /\ signalled' = (signalled \/ (k = "Ok" /\ child = "running"))
         /\ kwElapsed' = 0
         /\ IF KillIsFatal(k)
              THEN /\ kw' = [calls |-> kw.calls + 1, signals |-> kw.signals + 1,
                             polls |-> 0,
                             exitedAtCall |-> child = "exited", kill |-> k,
                             how |-> "KillErr", result |-> "Err"]
                   /\ should_restart' = TRUE
                   /\ rxAlive' = FALSE
                   /\ chan' = <<>>
                   /\ mpc' = "join_stdout"
              ELSE /\ kw' = [calls |-> kw.calls + 1, signals |-> kw.signals + 1,
                             polls |-> 0,
                             exitedAtCall |-> child = "exited", kill |-> k,
                             how |-> "none", result |-> "none"]
                   /\ mpc' = "kwpoll"
                   /\ UNCHANGED <<should_restart, rxAlive, chan>>
    /\ UNCHANGED <<supVars, ret, decidedBy, txAlive, sc, sent,
                   child, status, pipe, wopen, held, writes, histVars>>

\* self.child.try_wait() => Err(e): return Err(ProcessManagement).
KwPollErr ==
    /\ mpc = "kwpoll"
    /\ pollFailed' = TRUE
    /\ KwReturn("PollErr", "Err")
    /\ UNCHANGED <<supVars, ret, decidedBy, txAlive, sc, sent, childVars, kwElapsed,
                   matchRead, matchWritten, badWritten, exitObserved, echoVars>>

\* Ok(Some(status)) => return Ok(()).
KwPollExited ==
    /\ mpc = "kwpoll"
    /\ child = "exited"
    /\ exitObserved' = TRUE
    /\ KwReturn("Exited", "Ok")
    /\ UNCHANGED <<supVars, ret, decidedBy, txAlive, sc, sent, childVars, kwElapsed,
                   matchRead, matchWritten, badWritten, pollFailed, echoVars>>

\* Ok(None) with the timeout elapsed: give up, return Ok(()).
KwPollTimeout ==
    /\ mpc = "kwpoll"
    /\ child = "running"
    /\ TimedOut(kwElapsed, MonitorConfig.shutdown_timeout)
    /\ KwReturn("Timeout", "Ok")
    /\ UNCHANGED <<supVars, ret, decidedBy, txAlive, sc, sent, childVars, kwElapsed,
                   histVars>>

\* Ok(None) otherwise: thread::sleep(50 ms); continue.
KwPollSleep ==
    /\ mpc = "kwpoll"
    /\ child = "running"
    /\ ~TimedOut(kwElapsed, MonitorConfig.shutdown_timeout)
    /\ kwElapsed' = kwElapsed + KillPollMs
    /\ kw' = [kw EXCEPT !.polls = @ + 1]
    /\ UNCHANGED <<supVars, monVars, childVars, histVars>>

\* -------------------------------------------------------- cleanup_threads

\* stdout_handle.join(): blocks until the stdout scanner thread has ended.
JoinStdout ==
    /\ mpc = "join_stdout"
    /\ Finished("stdout")
    /\ mpc' = "join_stderr"
    /\ UNCHANGED <<supVars, ret, should_restart, decidedBy, chan, rxAlive, txAlive, sc,
                   sent, childVars, kwVars, histVars>>

\* A delay slept while the latest attempts have all failed to start.
InStreak(st, delay) ==
    IF st.fails > 0 THEN [st EXCEPT !.sleeps = Append(@, delay)] ELSE st

\* Mutant of RestartSleep: the restart branch sleeps error_delay.
RestartSleepWrongDelay(cfg) == cfg.error_delay

\* thread::sleep(self.config.restart_delay)
RestartSleep(cfg) == cfg.restart_delay

\* Mutant of ErrorSleep: the error branch sleeps restart_delay.
ErrorSleepWrongDelay(cfg) == cfg.restart_delay

\* thread::sleep(self.config.error_delay)
ErrorSleep(cfg) == cfg.error_delay

\* Mutant of JoinStderr: run treats Ok(false) like Ok(true) and loops on.
JoinStderrAlwaysLoops ==
    /\ mpc = "join_stderr"
    /\ Finished("stderr")
    /\ mpc' = "returned"
    /\ txAlive' = FALSE
    /\ ret' = IF should_restart THEN "OkTrue" ELSE "OkFalse"
    /\ spc' = "sleep_restart"
    /\ UNCHANGED <<test_mode, config, cfgVars, restart_count, slept, lastGap, streak, entryVars,
                   should_restart, decidedBy, chan, rxAlive, sc, sent,
                   childVars, kwVars, histVars>>

\* Mutant of JoinStderr: a scanner thread that returned Err makes monitor
\* return Err.
JoinStderrPropagates ==
    /\ mpc = "join_stderr"
    /\ Finished("stderr")
    /\ mpc' = "returned"
    /\ txAlive' = FALSE
    /\ LET failed == \E s \in Streams : sc[s] = "done_err" IN
         /\ ret' = IF failed THEN "Err"
                    ELSE IF should_restart THEN "OkTrue" ELSE "OkFalse"
         /\ spc' = IF failed THEN "sleep_error"
                    ELSE IF should_restart THEN "sleep_restart" ELSE "done"
    /\ UNCHANGED <<test_mode, config, cfgVars, restart_count, slept, lastGap, streak, entryVars,
                   should_restart, decidedBy, chan, rxAlive, sc, sent,
                   childVars, kwVars, histVars>>

\* stderr_handle.join(), then monitor returns Ok(should_restart) and run
\* takes the matching branch.
JoinStderr ==
    /\ mpc = "join_stderr"
    /\ Finished("stderr")
    /\ mpc' = "returned"
    /\ txAlive' = FALSE
    /\ ret' = IF should_restart THEN "OkTrue" ELSE "OkFalse"
    /\ spc' = IF should_restart THEN "sleep_restart" ELSE "done"
    /\ UNCHANGED <<test_mode, config, cfgVars, restart_count, slept, lastGap, streak, entryVars,
                   should_restart, decidedBy, chan, rxAlive, sc, sent,
                   childVars, kwVars, histVars>>

\* Ok(true): sleep restart_delay, then loop.
SleepRestart ==
    /\ spc = "sleep_restart"
    /\ slept' = Append(slept, RestartSleep(config))
    /\ streak' = InStreak(streak, RestartSleep(config))
    /\ spc' = "start"
    /\ UNCHANGED <<test_mode, config, cfgVars, restart_count, lastGap, entryVars,
                   monVars, childVars, kwVars, histVars>>

\* Err(e): sleep error_delay, then loop.
SleepError ==
    /\ spc = "sleep_error"
    /\ slept' = Append(slept, ErrorSleep(config))
    /\ streak' = InStreak(streak, ErrorSleep(config))
    /\ spc' = "start"
    /\ UNCHANGED <<test_mode, config, cfgVars, restart_count, lastGap, entryVars,
                   monVars, childVars, kwVars, histVars>>

\* ------------------------------------------------------- Config builders

\* Durations handed to the builders: the defaults and those of test_config_builder.
Delays == {RestartDelayMs, ErrorDelayMs, 1000, 3000}

\* with_error_pattern: self.error_pattern = pattern.into(); self
WithErrorPattern(cfg, pattern) == [cfg EXCEPT !.error_pattern = pattern]

\* Mutant of WithRestartDelay: the delay stored in both delay fields.
WithRestartDelayBoth(cfg, delay) ==
    [cfg EXCEPT !.restart_delay = delay, !.error_delay = delay]

\* with_restart_delay: self.restart_delay = delay; self
WithRestartDelay(cfg, delay) == [cfg EXCEPT !.restart_delay = delay]

\* with_error_delay: self.error_delay = delay; self
WithErrorDelay(cfg, delay) == [cfg EXCEPT !.error_delay = delay]

\* The caller chains one more builder onto the Config it is constructing.
ApplyWithErrorPattern ==
    /\ spc = "build"
    /\ \E p \in Patterns :
         /\ config' = WithErrorPattern(config, p)
         /\ call' = [fn |-> "with_error_pattern", arg |-> p]
    /\ UNCHANGED <<spc, test_mode, cfgVars, restart_count, slept, lastGap, streak, pid_cell,
                   monVars, childVars, kwVars, histVars>>

ApplyWithRestartDelay ==
    /\ spc = "build"
    /\ \E d \in Delays :
         /\ config' = WithRestartDelay(config, d)
         /\ call' = [fn |-> "with_restart_delay", arg |-> d]
    /\ UNCHANGED <<spc, test_mode, cfgVars, restart_count, slept, lastGap, streak, pid_cell,
                   monVars, childVars, kwVars, histVars>>

ApplyWithErrorDelay ==
    /\ spc = "build"
    /\ \E d \in Delays :
         /\ config' = WithErrorDelay(config, d)
         /\ call' = [fn |-> "with_error_delay", arg |-> d]
    /\ UNCHANGED <<spc, test_mode, cfgVars, restart_count, slept, lastGap, streak, pid_cell,
                   monVars, childVars, kwVars, histVars>>

\* Config::new() followed by any chain of builders.
ConfigInit ==
    /\ spc = "build"
    /\ config \in {ConfigNew(t) : t \in Timeouts}
    /\ InitRest

ConfigNext ==
    \/ ApplyWithErrorPattern
    \/ ApplyWithRestartDelay
    \/ ApplyWithErrorDelay

ConfigSpec == ConfigInit /\ [][ConfigNext]_vars

\* ----------------------------------------------------------- the system

Next ==
    \/ LoadTest
    \/ LoadCli
    \/ LoadFail
    \/ SpawnFail
    \/ SpawnOk
    \/ \E s \in Streams, item \in Items : ChildWrite(s, item)
    \/ \E s \in Streams : ChildClose(s)
    \/ \E code \in ExitCodes : ChildExit(code)
    \/ DescendantsExit
    \/ \E s \in Streams : ScanLine(s)
    \/ \E s \in Streams : ScanReadErr(s)
    \/ \E s \in Streams : ScanEof(s)
    \/ \E s \in Streams : SendMatch(s)
    \/ \E s \in Streams : SendIo(s)
    \/ \E s \in Streams : DetachedEnds(s)
    \/ Recv
    \/ PollErr
    \/ PollExited
    \/ PollRunning
    \/ Kill
    \/ KwPollErr
    \/ KwPollExited
    \/ KwPollTimeout
    \/ KwPollSleep
    \/ JoinStdout
    \/ JoinStderr
    \/ SleepRestart
    \/ SleepError

Spec == Init /\ [][Next]_vars

\* The three threads of an attempt.  The operating system schedules every
\* runnable thread, so each takes a step when it stays able to; the child and
\* its descendants are under no such obligation.
SupervisorStep ==
    \/ LoadTest \/ LoadCli \/ LoadFail \/ SpawnFail \/ SpawnOk
    \/ Recv \/ PollErr \/ PollExited \/ PollRunning
    \/ Kill \/ KwPollErr \/ KwPollExited \/ KwPollTimeout \/ KwPollSleep
    \/ JoinStdout \/ JoinStderr \/ SleepRestart \/ SleepError

ScannerStep(s) ==
    ScanLine(s) \/ ScanReadErr(s) \/ ScanEof(s) \/ SendMatch(s) \/ SendIo(s)

FairSpec ==
    /\ Spec
    /\ WF_vars(SupervisorStep)
    /\ \A s \in Streams : WF_vars(ScannerStep(s))

\* ------------------------------------------------------------------ claims

Returned == mpc = "returned"

\* C1 (restricted to attempts in which no status poll fails): if some line
\* read from stdout or stderr contains the error pattern, monitor returns
\* Ok(true), whatever the interleaving and also when the child exits 0.
C1_MatchReadMeansRestart ==
    (Returned /\ matchRead /\ ~pollFailed) => ret = "OkTrue"

\* C2 as stated: whenever monitor returns after ErrorDetected was received,
\* a status poll has observed the child's exit.
C2_ErrorDetectedMeansExitObserved ==
    (Returned /\ decidedBy = "ErrorDetected") => exitObserved

\* C2 amended: whenever monitor returns after ErrorDetected was received, it
\* returns Ok(true), kill_and_wait was called once and has returned, and the
\* child's exit has been observed unless kill_and_wait gave up on the timeout
\* (not before shutdown_timeout had elapsed), the kill failed, or a poll failed.
C2_ErrorDetectedMeansKillAndWaitDone ==
    (Returned /\ decidedBy = "ErrorDetected") =>
        /\ ret = "OkTrue"
        /\ kw.calls = 1
        /\ kw.how \in {"Exited", "Timeout", "KillErr", "PollErr"}
        /\ exitObserved <=> kw.how = "Exited"
        /\ kw.how = "Timeout" => kwElapsed >= config.shutdown_timeout

C2_Witness ==
    /\ Returned /\ decidedBy = "ErrorDetected"
    /\ kw.how = "Timeout" /\ child = "running" /\ ~exitObserved

ExitedWith(codes) == child = "exited" /\ status \in codes

C5_ClosedStreamsDisconnect ==
    (/\ mpc = "recv"
     /\ \A s \in Streams : sc[s] = "done_ok"
     /\ ~matchRead
     /\ child = "running")
        => RecvTimeout(chan, Senders) = "Disconnected"

\* C6: once the decision loop has received ErrorDetected or IoError, monitor
\* eventually returns.
C6_EventuallyReturns ==
    (decidedBy \in {"ErrorDetected", "IoError"}) ~> Returned

\* C7: whenever monitor has returned, both scanner threads of the attempt
\* have ended, and no loop iteration starts while a scanner thread of the
\* attempt before it is still running.
C7_ScannersJoinedOnReturn ==
    /\ Returned => \A s \in Streams : Finished(s)
    /\ lastGap.detached = 0

\* C8: in kill_and_wait the time since the signal never exceeds the timeout
\* plus one poll interval; when the child never reports exit the call gives
\* up within that time, returns Ok(()) and has signalled exactly once.
C8_GivesUpWithinTimeoutPlusPoll ==
    /\ kwElapsed <= config.shutdown_timeout + KillPollMs
    /\ kw.how = "Timeout" =>
         /\ kw.result = "Ok"
         /\ kwElapsed >= config.shutdown_timeout
         /\ kw.signals = 1

C8_Witness ==
    /\ kw.how = "Timeout" /\ child = "running"
    /\ config.shutdown_timeout > 0
    /\ kwElapsed > config.shutdown_timeout

KilledAfterExit ==
    kw.how # "none" /\ kw.exitedAtCall /\ kw.kill \in {"Ok", "InvalidInput"}

\* C9 as stated: kill_and_wait on a child that has already exited returns
\* Ok(()), whether the kill succeeds or fails because the process is gone.
C9_ExitedChildMeansOk ==
    KilledAfterExit => kw.result = "Ok"

\* C9 amended: kill_and_wait on a child that has already exited returns
\* Ok(()), whether the kill succeeds or fails because the process is gone,
\* unless the status poll itself fails.
C9_ExitedChildMeansOkUnlessPollFails ==
    (KilledAfterExit /\ kw.how # "PollErr") =>
        kw.result = "Ok" /\ kw.how = "Exited"

C9_Witness ==
    KilledAfterExit /\ kw.kill = "InvalidInput" /\ kw.result = "Ok"

\* C10: after an attempt whose outcome is Ok(true), run sleeps exactly once,
\* for restart_delay, before the next loop iteration builds and spawns.
C10_RestartSleepsRestartDelayOnce ==
    /\ spc = "sleep_restart" => (ret = "OkTrue" /\ slept = <<>>)
    /\ (spc = "start" /\ ret = "OkTrue") => slept = <<config.restart_delay>>
    /\ lastGap.outcome = "OkTrue" => lastGap.sleeps = <<config.restart_delay>>

C10_Witness ==
    /\ lastGap.outcome = "OkTrue" /\ lastGap.sleeps = <<RestartDelayMs>>
    /\ restart_count = 2 /\ spc = "monitor"

\* C11: after k consecutive attempts that failed to start, exactly k sleeps
\* have happened since the first of them, each of error_delay, and the next
\* attempt carries the counter k+1 when all attempts so far failed; the
\* counter grows by exactly 1 in the step that begins a loop iteration, in
\* no other step, and never decreases.
C11_StartFailuresSleepErrorDelay ==
    /\ [](streak.fails > 0 =>
            /\ spc \in {"sleep_error", "start"}
            /\ LET n == IF spc = "start" THEN streak.fails ELSE streak.fails - 1 IN
                 streak.sleeps = [i \in 1..n |-> config.error_delay])
    /\ [][/\ restart_count' \in {restart_count, restart_count + 1}
          /\ restart_count' # restart_count <=> (spc = "start" /\ spc' # "start")
          /\ (spc = "start" /\ spc' # "start" /\ streak.fails = restart_count)
                => restart_count' = streak.fails + 1]_vars

C11_Witness ==
    /\ spc = "start" /\ restart_count = 2
    /\ streak = [fails |-> 2, sleeps |-> <<ErrorDelayMs, ErrorDelayMs>>]

\* C12: run has left its loop with Ok(()) exactly when the latest attempt's
\* outcome is Ok(false); after Ok(true) or Err it sleeps and is then able to
\* begin another iteration.
C12_LeavesLoopOnlyOnCleanExit ==
    /\ spc = "done" <=> (Returned /\ ret = "OkFalse")
    /\ ret = "OkTrue" => spc \in {"sleep_restart", "start"}
    /\ ret = "Err" => spc \in {"sleep_error", "start"}
    /\ spc = "sleep_restart" => ENABLED SleepRestart
    /\ spc = "sleep_error" => ENABLED SleepError
    /\ (spc = "start" /\ restart_count < MaxAttempts) => ENABLED SpawnOk

C12_Witness ==
    /\ spc = "done" /\ ret = "OkFalse" /\ restart_count = 2
    /\ lastGap.outcome = "OkTrue"

\* A scanner thread of the attempt hit a read failure.
ReadFailed == \E s \in Streams : sc[s] = "send_io" \/ sent[s] = <<"IoError">>

\* C13: run ends with Err only before the first loop iteration; once the loop
\* has started, an attempt with a spawn failure, a stream read failure, a
\* failed status poll or a failed kill is never followed by leaving the loop.
C13_FailuresNeverLeaveLoop ==
    /\ spc = "failed" => (restart_count = 0 /\ ~test_mode)
    /\ (ret = "Err" \/ ReadFailed \/ pollFailed \/ kw.result = "Err")
          => spc \notin {"done", "failed"}

\* C14: a scanner that hit a read failure passes exactly one message, IoError,
\* to the channel and reads nothing more; once the decision loop has received
\* IoError it calls kill_and_wait once and monitor returns Ok(true), whatever
\* kill_and_wait returned.
C14_IoErrorSentOnceThenRestart ==
    /\ [](\A s \in Streams :
            /\ sc[s] = "send_io" => sent[s] = <<>>
            /\ (\E i \in 1..Len(sent[s]) : sent[s][i] = "IoError")
                 => (sent[s] = <<"IoError">> /\ sc[s] = "done_err"))
    /\ [][\A s \in Streams :
            /\ (sc[s] = "send_io" /\ sc'[s] \notin {"send_io", "detached"})
                 => (sent'[s] = <<"IoError">> /\ sc'[s] = "done_err")
            /\ (sc[s] \in {"send_io", "done_err"} /\ restart_count' = restart_count)
                 => (Len(pipe'[s]) >= Len(pipe[s])
                       /\ Len(unechoed'[s]) >= Len(unechoed[s]))]_vars
    /\ [](decidedBy = "IoError" =>
            /\ mpc \in {"kill", "kwpoll", "join_stdout", "join_stderr", "returned"}
            /\ mpc \notin {"kill", "kwpoll"} =>
                 (kw.calls = 1 /\ kw.result \in {"Ok", "Err"} /\ should_restart)
            /\ Returned => ret = "OkTrue")

C14_Witness ==
    /\ Returned /\ decidedBy = "IoError" /\ ret = "OkTrue"
    /\ kw.result = "Err"
    /\ \E s \in Streams : sent[s] = <<"IoError">> /\ pipe[s] # <<>>

\* C15: when monitor has returned from an attempt in which the child wrote no
\* line containing the pattern and no undecodable bytes, every line the child
\* wrote has been echoed, once and in the order written on its stream.
C15_QuietAttemptEchoesEveryLine ==
    (~matchWritten /\ ~badWritten) =>
        /\ echoInOrder
        /\ Returned => \A s \in Streams : unechoed[s] = <<>>

\* C16: while the child spawned by the loop is running and monitored, the PID
\* cell holds that child's identifier.
C16_PidCellHoldsCurrentChild ==
    (Monitored /\ child = "running") => pid_cell = <<ChildId>>

\* C17: Config::new() is Config::default(), with pattern "[Error",
\* restart_delay 2 s and error_delay 5 s, and every builder call sets its own
\* field to its argument and leaves every other field as it was, whatever
\* was applied before.
C17_BuildersSetOnlyTheirField ==
    /\ [](call.fn = "new" =>
            /\ config = DefaultConfig(config.shutdown_timeout)
            /\ config.error_pattern = <<"[", "E", "r", "r", "o", "r">>
            /\ config.restart_delay = 2000
            /\ config.error_delay = 5000)
    /\ [][\E f \in DOMAIN config :
            /\ f = CASE call'.fn = "with_error_pattern" -> "error_pattern"
                      [] call'.fn = "with_restart_delay" -> "restart_delay"
                      [] call'.fn = "with_error_delay" -> "error_delay"
            /\ config'[f] = call'.arg
            /\ \A g \in DOMAIN config \ {f} : config'[g] = config[g]]_vars

C17_Witness ==
    /\ call.fn = "with_error_delay"
    /\ config.error_pattern = AltPattern
    /\ config.restart_delay = 1000
    /\ config.error_delay = 3000

\* C18: a scanner passes at most one message to the channel in an attempt; a
\* scanner that read a matching line sends ErrorDetected and ends, and from
\* the match on it reads and echoes no further line; the channel never
\* carries more than two messages.
C18_OneMessagePerScanner ==
    /\ [](/\ \A s \in Streams : Len(sent[s]) <= 1
          /\ Len(chan) <= 2)
    /\ [][\A s \in Streams :
            /\ (sc[s] = "send_match" /\ sc'[s] \notin {"send_match", "detached"})
                 => (sent'[s] = <<"ErrorDetected">> /\ sc'[s] \in {"done_ok", "done_err"})
            /\ (sc[s] \in {"send_match", "done_ok", "done_err"}
                   /\ restart_count' = restart_count)
                 => (/\ Len(pipe'[s]) >= Len(pipe[s])
                     /\ Len(unechoed'[s]) >= Len(unechoed[s])
                     /\ sc'[s] # "read")]_vars

C18_Witness ==
    /\ chan = <<"ErrorDetected", "ErrorDetected">>
    /\ \A s \in Streams : sent[s] = <<"ErrorDetected">> /\ sc[s] = "done_ok"

\* C19: the decision loop acts once per attempt; what it acted on never
\* changes afterwards and fixes the value monitor returns, whatever the
\* scanner threads do or return while they are joined.
C19_DecidedOnce ==
    /\ [][(decidedBy # "none" /\ restart_count' = restart_count)
             => decidedBy' = decidedBy]_vars
    /\ [][(mpc \in {"join_stdout", "join_stderr"})
             => should_restart' = should_restart]_vars
    /\ [](Returned =>
            ret = CASE decidedBy \in {"ErrorDetected", "IoError"} -> "OkTrue"
                    [] decidedBy = "Exit" -> IF status = 0 THEN "OkFalse" ELSE "OkTrue"
                    [] decidedBy = "Disconnected" -> "OkFalse"
                    [] decidedBy = "PollErr" -> "Err")

C19_Witness ==
    /\ Returned /\ decidedBy = "Exit" /\ ret = "OkFalse"
    /\ \E s \in Streams : sent[s] = <<"ErrorDetected">> /\ sc[s] = "done_err"

\* C20: when kill_and_wait has returned Err after ErrorDetected was received,
\* monitor goes on to the join and returns Ok(true); run then sleeps
\* restart_delay once and is able to spawn the next child.
C20_KillFailureStillRestarts ==
    (decidedBy = "ErrorDetected" /\ kw.result = "Err") =>
        /\ mpc \in {"join_stdout", "join_stderr", "returned"}
        /\ should_restart
        /\ Returned =>
             /\ ret = "OkTrue"
             /\ spc \in {"sleep_restart", "start"}
             /\ spc = "sleep_restart" => (slept = <<>> /\ ENABLED SleepRestart)
             /\ spc = "start" =>
                  /\ slept = <<config.restart_delay>>
                  /\ restart_count < MaxAttempts => ENABLED SpawnOk

C20_Witness ==
    /\ decidedBy = "ErrorDetected" /\ kw.how = "KillErr" /\ kw.result = "Err"
    /\ child = "running"
    /\ spc = "start" /\ ret = "OkTrue" /\ slept = <<RestartDelayMs>>

\* C21: kill_and_wait returns Err only when the kill failed for a reason other
\* than the process being gone, and then it has polled the status not once,
\* or when a status poll failed; every other return is Ok.
C21_ErrOnlyOnKillOrPollFailure ==
    /\ kw.result = "Err" =>
         \/ kw.how = "KillErr" /\ kw.kill = "Other" /\ kw.polls = 0
         \/ kw.how = "PollErr" /\ kw.kill \in {"Ok", "InvalidInput"}
              /\ kw.polls >= 1 /\ pollFailed
    /\ kw.how \in {"Exited", "Timeout"} => (kw.result = "Ok" /\ kw.polls >= 1)
    /\ kw.kill = "Other" => (kw.result = "Err" /\ kw.polls = 0)

C21_Witness ==
    /\ Returned /\ kw.result = "Err" /\ kw.how = "KillErr" /\ kw.polls = 0
    /\ child = "running"

\* pat occurs in line: line is some text, then pat, then some text.
Occurs(pat, line) ==
    \E i \in 0..Len(line), j \in 0..Len(line) :
        /\ i + Len(pat) + j = Len(line)
        /\ line = SubSeq(line, 1, i) \o pat \o SubSeq(line, Len(line) - j + 1, Len(line))

\* The step in which scanner s takes a line off its stream.
ReadsLine(s) ==
    /\ sc[s] = "read" /\ restart_count' = restart_count
    /\ pipe[s] # <<>> /\ Head(pipe[s]) \in Lines
    /\ pipe'[s] = Tail(pipe[s])

\* C22: in the step in which a scanner reads a line, the line is echoed, and
\* the scanner goes on to send ErrorDetected exactly when the monitor's
\* pattern occurs in the line (contiguous, case-sensitive); a scanner sends
\* ErrorDetected only for such a line.
C22_SendsIffPatternOccurs ==
    /\ [][\A s \in Streams : ReadsLine(s) =>
            /\ sc'[s] = "send_match"
                  <=> Occurs(MonitorConfig.error_pattern, Head(pipe[s]))
            /\ sc'[s] \in {"send_match", "read"}
            /\ unechoed[s] # <<>> /\ Head(unechoed[s]) = Head(pipe[s])
            /\ unechoed'[s] = Tail(unechoed[s])
            /\ echoInOrder' = echoInOrder]_vars
    /\ [][\A s \in Streams :
            (sent'[s] # sent[s] /\ sent'[s] # <<>>
               /\ sent'[s][Len(sent'[s])] = "ErrorDetected")
              => sc[s] = "send_match"]_vars

C22_Witness ==
    /\ \E s \in Streams :
         /\ sent[s] = <<"ErrorDetected">>
         /\ unechoed[s] = <<>> /\ pipe[s] = <<>>
    /\ matchRead /\ echoInOrder /\ writes = 1

\* C23: an iteration of wait_for_completion that begins with a message in the
\* channel takes that message and goes on to kill_and_wait, whatever the
\* child's state; the exit status is polled only from an iteration whose
\* receive found the channel empty; and once a message was taken monitor
\* returns Ok(true).
C23_PendingMessageBeatsExitStatus ==
    /\ [][(mpc = "recv" /\ mpc' # "recv" /\ chan # <<>>)
             => (mpc' = "kill" /\ decidedBy' = Head(chan))]_vars
    /\ [][(mpc' = "poll" /\ mpc # "poll") => (mpc = "recv" /\ chan = <<>>)]_vars
    /\ []((Returned /\ decidedBy \in {"ErrorDetected", "IoError"}) => ret = "OkTrue")

C23_Witness ==
    /\ Returned /\ decidedBy = "ErrorDetected" /\ ret = "OkTrue"
    /\ kw.exitedAtCall /\ child = "exited" /\ status = 0

\* C24: a loop iteration that begins after an attempt in which no
\* kill_and_wait gave up or failed and no status poll failed never finds that
\* attempt's child still running.
C24_NoSpawnWhileChildRuns ==
    [][(restart_count' = restart_count + 1
          /\ kw.how \in {"none", "Exited"} /\ ~pollFailed)
         => child # "running"]_vars

C24_Witness ==
    /\ spc = "start" /\ restart_count < MaxAttempts /\ ENABLED SpawnOk
    /\ kw.how = "Exited" /\ ~kw.exitedAtCall /\ signalled /\ ~pollFailed
    /\ child = "exited"

\* C25: from the first loop iteration on, run's Config, the CLI configuration
\* and the monitor's Config never change; the monitor's Config is the one run
\* holds, which is the Config passed in, with the pattern of the CLI
\* configuration in its place when not in test mode.
C25_ConfigFixedBeforeLoop ==
    /\ [](spc \in {"start", "monitor", "sleep_restart", "sleep_error", "done"} =>
            /\ monitor_config = <<config>>
            /\ IF test_mode
                 THEN /\ cli_config = <<>>
                      /\ config = ConfigNew(config.shutdown_timeout)
                 ELSE /\ cli_config # <<>>
                      /\ config = [ConfigNew(config.shutdown_timeout) EXCEPT
                                      !.error_pattern = cli_config[1].error_pattern])
    /\ [][(spc # "load") => UNCHANGED <<config, cli_config, monitor_config>>]_vars

C25_Witness ==
    /\ restart_count = 2 /\ Monitored /\ ~test_mode
    /\ MonitorConfig.error_pattern = AltPattern
    /\ \E s \in Streams : sc[s] = "read" /\ pipe[s] # <<>>

====
